---- MODULE Spec2Model ----
(***************************************************************************)
(* Model of the synthetic-dataset generation engine, DataGenerator, of     *)
(* src/src/synthetic_dataset/generate/dataset_generation.py:               *)
(*   sample_distribution  the distribution sampler (a function of the      *)
(*                        spec, the context and the random source);        *)
(*   generate_one         the dependency resolver / generation loop;       *)
(*   generate             the batch of n records written to a csv file.    *)
(* Python values are tagged records, Python strings that the code parses   *)
(* (rule keys, labels) are sequences of one-character strings, and every   *)
(* draw of the random source is a nondeterministic choice.                 *)
(***************************************************************************)
EXTENDS Integers, Sequences, FiniteSets, TLC

VARIABLES
    \* ---- generate_one ----
    fields,        \* self.fields: the catalog, field name -> field descriptor
    obj,           \* obj: the generation context of the record under construction
    unresolved,    \* unresolved: set of field names without a value yet
    progress,      \* progress: flag of the current scan
    pending,       \* the part of list(unresolved) the for loop still has to visit
    pc,            \* position in generate_one
    err,           \* the exception that left generate_one ("none" when none)
    diag,          \* the lines printed by the no-progress diagnostic
    \* ---- instrumentation of generate_one (read by properties only) ----
    writes,        \* field name -> the scans in which obj[name] was assigned
    sampled,       \* the fields sample_distribution was invoked for
    scans,         \* number of scans of the unresolved set started
    \* ---- sample_distribution called on its own ----
    arg_cfg,       \* argument dist_cfg
    arg_ctx,       \* argument context
    out,           \* what the call did: value returned, exception, random draws
    spc,           \* "call" before the call, "done" after it, "idle" when unused
    \* ---- generate ----
    batch_n,       \* argument n
    rows,          \* rows: the records generated so far, each with its key order
    fieldnames,    \* fieldnames: the header of the file
    sink,          \* the file at csv_path: opened, closed, the lines written
    bpc,           \* position in generate ("idle" when unused)
    berr,          \* the exception that left generate ("none" when none)
    \* ---- instrumentation of generate (read by properties only) ----
    keys,          \* the keys of obj in the order they were inserted
    drawn,         \* field name -> the raw draw its sampler consumed, this record
    draws          \* for every record of rows, the draws it consumed

vars == <<fields, obj, unresolved, progress, pending, pc, err, diag,
          writes, sampled, scans, arg_cfg, arg_ctx, out, spc,
          batch_n, rows, fieldnames, sink, bpc, berr, keys, drawn, draws>>

genVars == <<fields, obj, unresolved, progress, pending, pc, err, diag,
             writes, sampled, scans>>
samplerVars == <<arg_cfg, arg_ctx, out, spc>>
batchVars == <<batch_n, rows, fieldnames, sink, bpc, berr, keys, drawn, draws>>

-----------------------------------------------------------------------------
(* Bounds of the model.                                                    *)

\* raw draws of the random source range over 0..MaxDraw
MaxDraw == 7
\* min / max of a normal spec range over 0..MaxClamp
MaxClamp == 6
\* conditioning values (ages) range over 0..MaxAge
MaxAge == 13
\* a rules table holds at most MaxRules keys
MaxRules == 2

-----------------------------------------------------------------------------
(* Python values.                                                          *)

None == [t |-> "none", i |-> 0, s |-> << >>]
IntV(n) == [t |-> "int", i |-> n, s |-> << >>]
StrV(cs) == [t |-> "str", i |-> 0, s |-> cs]
BoolV(b) == [t |-> "bool", i |-> IF b THEN 1 ELSE 0, s |-> << >>]

\* d.get(k, dflt)
Get(d, k, dflt) == IF k \in DOMAIN d THEN d[k] ELSE dflt

Digits == <<"0", "1", "2", "3", "4", "5", "6", "7", "8", "9">>

IsDigit(c) == \E k \in 1..10 : Digits[k] = c

DigitVal(c) == (CHOOSE k \in 1..10 : Digits[k] = c) - 1

\* int(s) of a string: its value, or -1 where Python raises ValueError.  The
\* strings of the model are made of digits, letters and "-"; the parts handed to
\* int() come out of split("-") and hold no sign.
RECURSIVE ParseAcc(_, _, _)
ParseAcc(cs, k, acc) ==
    IF k > Len(cs) THEN acc
    ELSE IF ~IsDigit(cs[k]) THEN -1
    ELSE ParseAcc(cs, k + 1, 10 * acc + DigitVal(cs[k]))

ParseInt(cs) == IF Len(cs) = 0 THEN -1 ELSE ParseAcc(cs, 1, 0)

\* str(n) of an integer
RECURSIVE StrNat(_)
StrNat(n) == IF n < 10 THEN <<Digits[n + 1]>>
             ELSE StrNat(n \div 10) \o <<Digits[(n % 10) + 1]>>

StrOfInt(n) == IF n < 0 THEN <<"-">> \o StrNat(0 - n) ELSE StrNat(n)

\* key.split("-")
RECURSIVE SplitAcc(_, _, _, _)
SplitAcc(cs, k, cur, done) ==
    IF k > Len(cs) THEN Append(done, cur)
    ELSE IF cs[k] = "-" THEN SplitAcc(cs, k + 1, << >>, Append(done, cur))
    ELSE SplitAcc(cs, k + 1, Append(cur, cs[k]), done)

Split(cs) == SplitAcc(cs, 1, << >>, << >>)

\* "-" in key
HasDash(cs) == \E k \in 1..Len(cs) : cs[k] = "-"

\* int(v) of a value: [ok, n, err]
PyInt(v) ==
    CASE v.t = "int" -> [ok |-> TRUE, n |-> v.i, err |-> "none"]
      [] v.t = "bool" -> [ok |-> TRUE, n |-> v.i, err |-> "none"]
      [] v.t = "str" ->
            IF ParseInt(v.s) >= 0
            THEN [ok |-> TRUE, n |-> ParseInt(v.s), err |-> "none"]
            ELSE [ok |-> FALSE, n |-> 0, err |-> "ValueError"]
      [] OTHER -> [ok |-> FALSE, n |-> 0, err |-> "TypeError"]

\* str(v) of a value
PyStr(v) ==
    CASE v.t = "int" -> StrOfInt(v.i)
      [] v.t = "str" -> v.s
      [] v.t = "bool" -> IF v.i = 1 THEN <<"T", "r", "u", "e">>
                         ELSE <<"F", "a", "l", "s", "e">>
      [] OTHER -> <<"N", "o", "n", "e">>

DefaultKey == <<"d", "e", "f", "a", "u", "l", "t">>

-----------------------------------------------------------------------------
(* sample_distribution(dist_cfg, context).  `raw` is the one number the    *)
(* random source hands out if it is asked: a draw in 0..MaxDraw.           *)
(* Probabilities are counted in units of 1/POne, so random.random() is     *)
(* raw in 0..POne-1.                                                       *)

POne == MaxDraw + 1

\* what one call did: the value returned, the exception raised ("none" when it
\* returned), the calls made to the random source, and the rule key whose probs
\* table was drawn from (<< >> when no table was)
Out(ret, e, rng, table) == [ret |-> ret, err |-> e, rng |-> rng, table |-> table]

Raise(e) == Out(None, e, << >>, << >>)

\* one call to the random source: the function, its parameters and the number it
\* handed out
Call(fn, args, val) == [fn |-> fn, args |-> args, val |-> val]

RECURSIVE Positive(_, _)
Positive(probs, k) ==
    IF k > Len(probs) THEN << >>
    ELSE IF probs[k][2] > 0 THEN <<probs[k][1]>> \o Positive(probs, k + 1)
    ELSE Positive(probs, k + 1)

Weights(probs) == [k \in 1..Len(probs) |-> probs[k][2]]

\* probs = rule["probs"];
\* return random.choices(list(probs.keys()), list(probs.values()))[0]
DrawFromRule(rule, key, raw) ==
    IF "probs" \notin DOMAIN rule THEN Raise("KeyError")
    ELSE LET probs == rule.probs
             pos == Positive(probs, 1)
         IN  IF Len(probs) = 0 THEN Raise("IndexError")
             ELSE IF Len(pos) = 0 THEN Raise("ValueError")
             ELSE Out(StrV(pos[(raw % Len(pos)) + 1]), "none",
                      <<Call("choices", Weights(probs), raw)>>, key)

\* a range test that leaves the upper bound out: ... < int(hi)
RangeTestExclusive(lo, hi, cond_val) ==
    IF ParseInt(lo) < 0 THEN [err |-> "ValueError", match |-> FALSE]
    ELSE IF ~PyInt(cond_val).ok THEN [err |-> PyInt(cond_val).err, match |-> FALSE]
    ELSE IF ~(ParseInt(lo) <= PyInt(cond_val).n) THEN [err |-> "none", match |-> FALSE]
    ELSE IF ParseInt(hi) < 0 THEN [err |-> "ValueError", match |-> FALSE]
    ELSE [err |-> "none", match |-> PyInt(cond_val).n < ParseInt(hi)]

\* int(lo) <= int(cond_val) <= int(hi), left to right, int(hi) evaluated only
\* when the first comparison holds: [err, match]
RangeTest(lo, hi, cond_val) ==
    IF ParseInt(lo) < 0 THEN [err |-> "ValueError", match |-> FALSE]
    ELSE IF ~PyInt(cond_val).ok THEN [err |-> PyInt(cond_val).err, match |-> FALSE]
    ELSE IF ~(ParseInt(lo) <= PyInt(cond_val).n) THEN [err |-> "none", match |-> FALSE]
    ELSE IF ParseInt(hi) < 0 THEN [err |-> "ValueError", match |-> FALSE]
    ELSE [err |-> "none", match |-> PyInt(cond_val).n <= ParseInt(hi)]

\* the for loop over rules.items(), from the k-th item on: [hit, out]
RECURSIVE RuleLoop(_, _, _, _)
RuleLoop(rules, k, cond_val, raw) ==
    IF k > Len(rules) THEN [hit |-> FALSE, out |-> Raise("none")]
    ELSE LET key == rules[k][1]
             rule == rules[k][2]
         IN  IF key = DefaultKey THEN RuleLoop(rules, k + 1, cond_val, raw)
             ELSE IF HasDash(key)
             THEN IF Len(Split(key)) # 2
                  THEN [hit |-> TRUE, out |-> Raise("ValueError")]
                  ELSE LET rt == RangeTest(Split(key)[1], Split(key)[2], cond_val)
                       IN  IF rt.err # "none"
                           THEN [hit |-> TRUE, out |-> Raise(rt.err)]
                           ELSE IF rt.match
                           THEN [hit |-> TRUE, out |-> DrawFromRule(rule, key, raw)]
                           ELSE RuleLoop(rules, k + 1, cond_val, raw)
             ELSE IF PyStr(cond_val) = key
             THEN [hit |-> TRUE, out |-> DrawFromRule(rule, key, raw)]
             ELSE RuleLoop(rules, k + 1, cond_val, raw)

\* rules[key] of the ordered mapping
RuleOf(rules, key) == rules[CHOOSE k \in 1..Len(rules) : rules[k][1] = key][2]

HasKey(rules, key) == \E k \in 1..Len(rules) : rules[k][1] = key

\* a sampler that returns None for a spec without categories
ChoiceOfNone(dist_cfg, raw) ==
    IF "categories" \notin DOMAIN dist_cfg THEN Out(None, "none", << >>, << >>)
    ELSE IF Len(dist_cfg.categories) = 0 THEN Raise("IndexError")
    ELSE Out(StrV(dist_cfg.categories[(raw % Len(dist_cfg.categories)) + 1]),
             "none", <<Call("choice", << >>, raw)>>, << >>)

\* return random.choice(categories)
ChoiceOf(dist_cfg, raw) ==
    IF "categories" \notin DOMAIN dist_cfg THEN Raise("TypeError")
    ELSE IF Len(dist_cfg.categories) = 0 THEN Raise("IndexError")
    ELSE Out(StrV(dist_cfg.categories[(raw % Len(dist_cfg.categories)) + 1]),
             "none", <<Call("choice", << >>, raw)>>, << >>)

SampleCategorical(dist_cfg, ctx, raw) ==
    LET rules == Get(dist_cfg, "rules", << >>)
        cond == Get(dist_cfg, "condition_on", "")
    IN  IF cond # "" /\ cond \in DOMAIN ctx
        THEN LET loop == RuleLoop(rules, 1, ctx[cond], raw)
             IN  IF loop.hit THEN loop.out
                 ELSE IF HasKey(rules, DefaultKey)
                 THEN DrawFromRule(RuleOf(rules, DefaultKey), DefaultKey, raw)
                 ELSE ChoiceOf(dist_cfg, raw)
        ELSE ChoiceOf(dist_cfg, raw)

Max(a, b) == IF a >= b THEN a ELSE b
Min(a, b) == IF a <= b THEN a ELSE b

ClampMin(dist_cfg, val) == IF "min" \in DOMAIN dist_cfg THEN Max(val, dist_cfg.min) ELSE val

\* max(...) written where min(...) is meant
ClampMaxUp(dist_cfg, val) == IF "max" \in DOMAIN dist_cfg THEN Max(val, dist_cfg.max) ELSE val

ClampMax(dist_cfg, val) == IF "max" \in DOMAIN dist_cfg THEN Min(val, dist_cfg.max) ELSE val

SampleNormal(dist_cfg, raw) ==
    Out(IntV(ClampMax(dist_cfg, ClampMin(dist_cfg, raw))), "none",
        <<Call("normal", <<Get(dist_cfg, "mean", 0), Get(dist_cfg, "sd", 1)>>, raw)>>,
        << >>)

Kinds == {"normal", "lognormal", "poisson", "exponential", "categorical", "bernoulli"}

\* a sampler that takes a spec without "dist" for a normal one
DistOfNormal(dist_cfg) == Get(dist_cfg, "dist", "normal")

\* a spec without the key "dist" has dist = None, written "None" here: like any
\* string outside Kinds it selects no branch
DistOf(dist_cfg) == Get(dist_cfg, "dist", "None")

\* a sampler whose exponential branch takes its scale from the rule of the
\* conditioning value
SampleDistributionConditioned(cfg, ctx, raw) ==
    IF cfg = None THEN Out(None, "none", << >>, << >>)
    ELSE CASE DistOf(cfg) = "normal" -> SampleNormal(cfg, raw)
           [] DistOf(cfg) = "lognormal" ->
                Out(IntV(raw + 1), "none", <<Call("lognormal", <<1, 1>>, raw + 1)>>, << >>)
           [] DistOf(cfg) = "poisson" ->
                Out(IntV(raw), "none", <<Call("poisson", <<Get(cfg, "lambda", 1)>>, raw)>>,
                    << >>)
           [] DistOf(cfg) = "exponential" ->
                LET rules == Get(cfg, "rules", << >>)
                    cond == Get(cfg, "condition_on", "")
                    scale == IF cond \in DOMAIN ctx /\ HasKey(rules, PyStr(ctx[cond]))
                             THEN RuleOf(rules, PyStr(ctx[cond])).scale
                             ELSE Get(cfg, "scale", 1)
                IN  Out(IntV(raw), "none", <<Call("exponential", <<scale>>, raw)>>, << >>)
           [] DistOf(cfg) = "categorical" -> SampleCategorical(cfg, ctx, raw)
           [] DistOf(cfg) = "bernoulli" ->
                Out(BoolV(raw < Get(cfg, "p", POne \div 2)), "none",
                    <<Call("random", << >>, raw)>>, << >>)
           [] OTHER -> Out(None, "none", << >>, << >>)

SampleDistribution(cfg, ctx, raw) ==
    IF cfg = None THEN Out(None, "none", << >>, << >>)
    ELSE CASE DistOf(cfg) = "normal" -> SampleNormal(cfg, raw)
           [] DistOf(cfg) = "lognormal" ->
                Out(IntV(raw + 1), "none", <<Call("lognormal", <<1, 1>>, raw + 1)>>, << >>)
           [] DistOf(cfg) = "poisson" ->
                Out(IntV(raw), "none", <<Call("poisson", <<Get(cfg, "lambda", 1)>>, raw)>>,
                    << >>)
           [] DistOf(cfg) = "exponential" ->
                Out(IntV(raw), "none",
                    <<Call("exponential", <<Get(cfg, "scale", 1)>>, raw)>>, << >>)
           [] DistOf(cfg) = "categorical" -> SampleCategorical(cfg, ctx, raw)
           [] DistOf(cfg) = "bernoulli" ->
                Out(BoolV(raw < Get(cfg, "p", POne \div 2)), "none",
                    <<Call("random", << >>, raw)>>, << >>)
           [] OTHER -> Out(None, "none", << >>, << >>)

-----------------------------------------------------------------------------
(* The specs and contexts sample_distribution is called with.              *)

EmptyDict == [x \in {} |-> None]

\* the key k absent, or present with one of vals
Opt(k, vals) == {EmptyDict} \cup {k :> v : v \in vals}

\* rule keys: integer ranges, exact labels, "default", and keys with a "-" that
\* are no integer range
RangeKeys == {<<"2", "-", "4">>, <<"3", "-", "6">>, <<"1", "0", "-", "1", "2">>,
              <<"5", "-", "3">>}
LabelKeys == {<<"5">>, <<"1", "1">>, <<"m">>}
OddKeys == {<<"s", "-", "e">>, <<"1", "-", "2", "-", "3">>, <<"-", "1", "-", "2">>,
            <<"2", "-", "x">>}
RuleKeys == RangeKeys \cup LabelKeys \cup OddKeys \cup {DefaultKey}

\* the probs table of a key: two labels that start with the key's first
\* character and one label of weight 0
ProbsOf(key) == << <<<<key[1], "a">>, 1>>, <<<<key[1], "z">>, 0>>, <<<<key[1], "b">>, 3>> >>

\* ordered rules mappings of at most MaxRules distinct keys
RECURSIVE RuleSeqs(_)
RuleSeqs(n) ==
    IF n = 0 THEN {<< >>}
    ELSE RuleSeqs(n - 1) \cup
         {Append(r, <<key, [probs |-> ProbsOf(key)]>>) :
            r \in {q \in RuleSeqs(n - 1) : Len(q) = n - 1},
            key \in RuleKeys}

DistinctKeys(rules) == \A j, k \in 1..Len(rules) : rules[j][1] = rules[k][1] => j = k

RulesTables == {r \in RuleSeqs(MaxRules) : DistinctKeys(r)}

Categories == << <<"m">>, <<"f">>, <<"o">> >>

CategoricalCfgs ==
    {[dist |-> "categorical"] @@ c @@ o @@ r :
        c \in Opt("categories", {Categories}),
        o \in Opt("condition_on", {"age", "ghost"}),
        r \in Opt("rules", RulesTables)}

NormalCfgs ==
    {[dist |-> "normal"] @@ m @@ lo @@ hi :
        m \in {EmptyDict, [mean |-> 4, sd |-> 2]},
        lo \in Opt("min", 0..MaxClamp),
        hi \in Opt("max", 0..MaxClamp)}

\* the other kinds, with and without their parameters and with the
\* condition_on / rules entries the schema gives some of them
ScalarCfgs ==
    {[dist |-> k] @@ o @@ c :
        k \in {"lognormal", "poisson", "exponential", "bernoulli"},
        o \in {EmptyDict, [mean |-> 3, sigma |-> 2], [lambda |-> 2], [scale |-> 3],
               [p |-> 1]},
        c \in {EmptyDict,
               [condition_on |-> "age",
                rules |-> << <<<<"5">>, [scale |-> 2]>> >>]}}

\* no kind at all: None, {}, a spec without "dist", an unknown kind
NoKindCfgs ==
    {None, EmptyDict, [mean |-> 4, sd |-> 2], [dist |-> "weibull"],
     [dist |-> "weibull", condition_on |-> "age"], [dist |-> "Normal", min |-> 2]}

DistCfgs == CategoricalCfgs \cup NormalCfgs \cup ScalarCfgs \cup NoKindCfgs

Contexts ==
    {EmptyDict} \cup {[age |-> IntV(v)] : v \in 0..MaxAge}
    \cup {[age |-> StrV(<<"m">>)], [age |-> None], [other |-> IntV(3)]}

NoCall == Out(None, "none", << >>, << >>)

-----------------------------------------------------------------------------
(* sample_distribution called once with any spec, context and draw.        *)

GenIdle ==
    /\ fields = EmptyDict /\ obj = EmptyDict /\ unresolved = {} /\ pending = {}
    /\ progress = FALSE /\ pc = "idle" /\ err = "none" /\ diag = {}
    /\ writes = EmptyDict /\ sampled = {} /\ scans = 0

\* the file before open(csv_path, "w")
NoFile == [opened |-> FALSE, closed |-> FALSE, lines |-> << >>]

BatchIdle ==
    /\ batch_n = 0 /\ rows = << >> /\ fieldnames = << >> /\ sink = NoFile
    /\ bpc = "idle" /\ berr = "none"
    /\ keys = << >> /\ drawn = EmptyDict /\ draws = << >>

SamplerInit ==
    /\ arg_cfg \in DistCfgs
    /\ arg_ctx \in Contexts
    /\ out = NoCall
    /\ spc = "call"
    /\ GenIdle
    /\ BatchIdle

CallSampleDistribution ==
    /\ spc = "call"
    /\ \E raw \in 0..MaxDraw : out' = SampleDistribution(arg_cfg, arg_ctx, raw)
    /\ spc' = "done"
    /\ UNCHANGED <<arg_cfg, arg_ctx>>
    /\ UNCHANGED <<genVars, batchVars>>

SamplerNext == CallSampleDistribution

SamplerSpec == SamplerInit /\ [][SamplerNext]_vars

-----------------------------------------------------------------------------
(* The field catalog.  A field is a record with its default, its metadata  *)
(* mapping (distribution, formula, dependent_on, each optional) and,       *)
(* for the fields that have the attribute, required.                       *)

\* a catalog has at most MaxFields fields
MaxFields == 3
\* all fields of a catalog together declare at most MaxEdges dependencies
MaxEdges == 3

AllNames == <<"a", "b", "c", "d", "e">>

FieldNames(n) == {AllNames[k] : k \in 1..n}

\* a dependency name that is no field of any catalog
External == "signup_date"

FormulaUuid == "uuid.uuid4().hex"
FormulaImport == "import uuid; uuid.uuid4().hex"

HexValue == StrV(<<"h", "e", "x">>)
DefaultValue == StrV(<<"d">>)

\* an expression that is one bare name, an expression that subscripts the
\* record under construction, and a bare name that is a variable of generate_one
FormulaRef == "a"
FormulaSubscript == "obj['a']"
FormulaLocal == "name"

\* the variables of generate_one that eval(formula) finds when the field `name`
\* is visited
Locals(ctx, name) == [obj |-> ctx, name |-> StrV(<<name>>)]

\* eval(formula), called with no namespace arguments: the names of the
\* expression are looked up in the variables of generate_one, then in the
\* names of the module (uuid among them): [err, val]
EvalFormula(formula, locals) ==
    CASE formula = FormulaUuid -> [err |-> "none", val |-> HexValue]
      [] formula = FormulaImport -> [err |-> "SyntaxError", val |-> None]
      [] formula = FormulaSubscript ->
           IF "a" \in DOMAIN locals.obj
           THEN [err |-> "none", val |-> locals.obj["a"]]
           ELSE [err |-> "KeyError", val |-> None]
      [] formula = FormulaLocal -> [err |-> "none", val |-> locals.name]
      [] OTHER -> [err |-> "NameError", val |-> None]

\* extras = getattr(field.field_info, "extra", {}) or {}   (ModelField), or
\* extras = getattr(field, "extra", {}) or {}              (FieldInfo)
Extras(field) ==
    IF "field_info" \in DOMAIN field
    THEN Get(field.field_info, "extra", EmptyDict)
    ELSE Get(field, "extra", EmptyDict)

\* dist_cfg = extras.get("distribution")
DistCfg(field) == Get(Extras(field), "distribution", None)

\* if dist_cfg:
HasDist(field) == DistCfg(field) # None /\ DOMAIN DistCfg(field) # {}

\* formula = extras.get("formula"); if formula:
HasFormula(field) ==
    "formula" \in DOMAIN Extras(field) /\ Extras(field).formula # ""

\* deps = extras.get("dependent_on"), a name ([str |-> n]), a list of names
\* ([list |-> S], order left out: the code only tests membership) or absent;
\* if deps:
HasDeps(field) ==
    /\ "dependent_on" \in DOMAIN Extras(field)
    /\ IF "str" \in DOMAIN Extras(field).dependent_on
       THEN Extras(field).dependent_on.str # ""
       ELSE Extras(field).dependent_on.list # {}

\* if isinstance(deps, str): deps = [deps]
Deps(field) ==
    IF ~HasDeps(field) THEN {}
    ELSE IF "str" \in DOMAIN Extras(field).dependent_on
    THEN {Extras(field).dependent_on.str}
    ELSE Extras(field).dependent_on.list

\* a resolver that leaves a field's dependency on itself out
RelevantDepsNoSelf(catalog, name) ==
    {d \in Deps(catalog[name]) : d \in DOMAIN catalog /\ d # name}

\* relevant_deps = [d for d in deps if d in self.fields]
RelevantDeps(catalog, name) == {d \in Deps(catalog[name]) : d \in DOMAIN catalog}

\* all(...) written where any(...) is meant
BlockedAll(catalog, ctx, name) ==
    \A dep \in RelevantDeps(catalog, name) : dep \notin DOMAIN ctx

\* any(dep not in obj for dep in relevant_deps)
Blocked(catalog, ctx, name) ==
    \E dep \in RelevantDeps(catalog, name) : dep \notin DOMAIN ctx

\* has_explicit_default = (default_val is not None) or
\*     (hasattr(field, "required") and not getattr(field, "required"))
HasExplicitDefault(field) ==
    \/ field.default # None
    \/ ("required" \in DOMAIN field /\ ~field.required)

\* if has_explicit_default or (not dist_cfg and not formula and not deps):
TakesDefault(field) ==
    \/ HasExplicitDefault(field)
    \/ (~HasDist(field) /\ ~HasFormula(field) /\ ~HasDeps(field))

\* the distribution branch written before the formula branch
BranchDistFirst(field) ==
    IF HasDist(field) THEN "distribution"
    ELSE IF HasFormula(field) THEN "formula"
    ELSE IF TakesDefault(field) THEN "default"
    ELSE "none"

\* the branch of the loop body a field that is not blocked takes:
\* if formula: ... / if dist_cfg: ... / if has_explicit_default or (...): ...
Branch(field) ==
    IF HasFormula(field) THEN "formula"
    ELSE IF HasDist(field) THEN "distribution"
    ELSE IF TakesDefault(field) THEN "default"
    ELSE "none"

\* if deps: ... if any(dep not in obj for dep in relevant_deps): continue
Skips(catalog, ctx, name) == HasDeps(catalog[name]) /\ Blocked(catalog, ctx, name)

\* obj[name] = val
Put(ctx, name, val) ==
    [k \in DOMAIN ctx \cup {name} |-> IF k = name THEN val ELSE ctx[k]]

\* the line the diagnostic prints for a field
DiagLine(catalog, name) ==
    [name |-> name,
     has_distribution |-> HasDist(catalog[name]),
     formula |-> Get(Extras(catalog[name]), "formula", "None"),
     default |-> catalog[name].default,
     dependent_on |-> Get(Extras(catalog[name]), "dependent_on", None)]

\* the distribution specs of the catalogs: a kind that draws, an unknown kind,
\* and the categorical spec without categories of main_account_type
Bernoulli == [dist |-> "bernoulli", p |-> 1]
Weibull == [dist |-> "weibull"]
Bare == [dist |-> "categorical"]

\* what a field has besides its dependencies: metadata, default, required
\* (a field with a default is not required)
Strategy(extra, default, required) ==
    [extra |-> extra, default |-> default, required |-> required]

Strategies == <<
    Strategy([formula |-> FormulaUuid, distribution |-> None], None, TRUE),
    Strategy([formula |-> FormulaUuid, distribution |-> Bernoulli], DefaultValue, FALSE),
    Strategy([formula |-> FormulaImport, distribution |-> None], None, TRUE),
    Strategy([distribution |-> Bernoulli], None, TRUE),
    Strategy([distribution |-> Weibull], DefaultValue, FALSE),
    Strategy([distribution |-> Bare], None, TRUE),
    Strategy(EmptyDict, DefaultValue, FALSE),
    Strategy([distribution |-> None], None, FALSE),
    Strategy(EmptyDict, None, TRUE) >>

\* dependent_on=None, dependent_on="n", dependent_on=["n", "m"]
DepsEntry(S) ==
    IF S = {} THEN EmptyDict
    ELSE IF Cardinality(S) = 1 THEN "dependent_on" :> [str |-> CHOOSE n \in S : TRUE]
    ELSE "dependent_on" :> [list |-> S]

MkField(strategy, S) ==
    [field_info |-> [extra |-> strategy.extra @@ DepsEntry(S)],
     default |-> strategy.default,
     required |-> strategy.required]

RECURSIVE SumCard(_, _)
SumCard(g, n) == IF n = 0 THEN 0 ELSE Cardinality(g[n]) + SumCard(g, n - 1)

\* the declared dependencies of the fields 1..n of a catalog
Graphs(n) ==
    {g \in [1..n -> SUBSET (FieldNames(n) \cup {External})] : SumCard(g, n) <= MaxEdges}

\* the strategies of the fields 1..n.  generate_one treats field names as opaque
\* keys and scans them in no fixed order, so every catalog is listed once up to
\* a renaming of its fields: strategies in non-decreasing order along the names
Assignments(n) ==
    {st \in [1..n -> 1..Len(Strategies)] : \A j, k \in 1..n : j <= k => st[j] <= st[k]}

\* the catalog of n fields with strategies st and declared dependencies g
Catalog(n, st, g) ==
    [name \in FieldNames(n) |->
        LET k == CHOOSE j \in 1..n : AllNames[j] = name
        IN  MkField(Strategies[st[k]], g[k])]

\* the catalogs whose formulas name fields: at most MaxFormulaFields fields
\* that together declare at most MaxFormulaEdges dependencies
MaxFormulaFields == 2
MaxFormulaEdges == 1

\* the formulas of the catalogs name the field "a", so here the fields are not
\* interchangeable and every assignment of strategies to names is listed
FormulaStrategies == <<
    Strategy([formula |-> FormulaRef], None, TRUE),
    Strategy([formula |-> FormulaSubscript], None, TRUE),
    Strategy([formula |-> FormulaLocal], None, TRUE),
    Strategy([formula |-> FormulaUuid], None, TRUE),
    Strategy([formula |-> FormulaImport], None, TRUE),
    Strategy([distribution |-> Bernoulli], None, TRUE),
    Strategy(EmptyDict, DefaultValue, FALSE),
    Strategy(EmptyDict, None, TRUE) >>

FormulaGraphs(n) ==
    {g \in [1..n -> SUBSET (FieldNames(n) \cup {External})] :
        SumCard(g, n) <= MaxFormulaEdges}

FormulaCatalog(n, st, g) ==
    [name \in FieldNames(n) |->
        LET k == CHOOSE j \in 1..n : AllNames[j] = name
        IN  MkField(FormulaStrategies[st[k]], g[k])]

-----------------------------------------------------------------------------
(* generate_one                                                            *)

SamplerIdle == arg_cfg = None /\ arg_ctx = EmptyDict /\ out = NoCall /\ spc = "idle"

Init ==
    /\ \E n \in 0..MaxFields :
         \E st \in Assignments(n) :
           \E g \in Graphs(n) : fields = Catalog(n, st, g)
    /\ obj = EmptyDict
    /\ unresolved = DOMAIN fields
    /\ progress = FALSE
    /\ pending = {}
    /\ pc = "while"
    /\ err = "none"
    /\ diag = {}
    /\ writes = EmptyDict
    /\ sampled = {}
    /\ scans = 0
    /\ SamplerIdle
    /\ BatchIdle

\* while unresolved: progress = False; for name in list(unresolved):
BeginScan ==
    /\ pc = "while"
    /\ unresolved # {}
    /\ progress' = FALSE
    /\ pending' = unresolved
    /\ pc' = "for"
    /\ scans' = scans + 1
    /\ UNCHANGED <<fields, obj, unresolved, err, diag, writes, sampled>>

\* return obj
Return ==
    /\ pc = "while"
    /\ unresolved = {}
    /\ pc' = "returned"
    /\ UNCHANGED <<fields, obj, unresolved, progress, pending, err, diag, writes,
                   sampled, scans>>

\* a branch that forgets progress = True
ResolveNoProgress(name, val) ==
    /\ obj' = Put(obj, name, val)
    /\ unresolved' = unresolved \ {name}
    /\ progress' = progress
    /\ pending' = pending \ {name}
    /\ writes' = Put(writes, name, Append(Get(writes, name, << >>), scans))
    /\ UNCHANGED <<pc, err>>

\* a branch that forgets unresolved.remove(name)
ResolveNoRemove(name, val) ==
    /\ obj' = Put(obj, name, val)
    /\ unresolved' = unresolved
    /\ progress' = TRUE
    /\ pending' = pending \ {name}
    /\ writes' = Put(writes, name, Append(Get(writes, name, << >>), scans))
    /\ UNCHANGED <<pc, err>>

\* obj[name] = val; unresolved.remove(name); progress = True; continue
Resolve(name, val) ==
    /\ obj' = Put(obj, name, val)
    /\ unresolved' = unresolved \ {name}
    /\ progress' = TRUE
    /\ pending' = pending \ {name}
    /\ writes' = Put(writes, name, Append(Get(writes, name, << >>), scans))
    /\ UNCHANGED <<pc, err>>

\* an exception leaves generate_one
Propagate(e) ==
    /\ pc' = "raised"
    /\ err' = e
    /\ UNCHANGED <<obj, unresolved, progress, pending, writes>>

\* a skip that also drops the blocked field from unresolved
SkipBlockedDrop(name) ==
    /\ pc = "for"
    /\ name \in pending
    /\ Skips(fields, obj, name)
    /\ pending' = pending \ {name}
    /\ unresolved' = unresolved \ {name}
    /\ UNCHANGED <<fields, obj, progress, pc, err, diag, writes, sampled, scans>>

\* if any(dep not in obj for dep in relevant_deps): continue
SkipBlocked(name) ==
    /\ pc = "for"
    /\ name \in pending
    /\ Skips(fields, obj, name)
    /\ pending' = pending \ {name}
    /\ UNCHANGED <<fields, obj, unresolved, progress, pc, err, diag, writes, sampled,
                   scans>>

\* a formula branch that catches the exception and goes on to the next field
ResolveFormulaSwallow(name) ==
    /\ pc = "for"
    /\ name \in pending
    /\ ~Skips(fields, obj, name)
    /\ Branch(fields[name]) = "formula"
    /\ LET r == EvalFormula(Extras(fields[name]).formula, Locals(obj, name))
       IN  IF r.err = "none"
           THEN Resolve(name, r.val)
           ELSE /\ pending' = pending \ {name}
                /\ UNCHANGED <<obj, unresolved, progress, pc, err, writes>>
    /\ UNCHANGED <<fields, diag, sampled, scans>>

\* if formula: obj[name] = eval(formula)
ResolveFormula(name) ==
    /\ pc = "for"
    /\ name \in pending
    /\ ~Skips(fields, obj, name)
    /\ Branch(fields[name]) = "formula"
    /\ LET r == EvalFormula(Extras(fields[name]).formula, Locals(obj, name))
       IN  IF r.err = "none" THEN Resolve(name, r.val) ELSE Propagate(r.err)
    /\ UNCHANGED <<fields, diag, sampled, scans>>

\* if dist_cfg: val = self.sample_distribution(dist_cfg, obj); obj[name] = val,
\* when the random source yields raw
ResolveDistributionWith(name, raw) ==
    /\ pc = "for"
    /\ name \in pending
    /\ ~Skips(fields, obj, name)
    /\ Branch(fields[name]) = "distribution"
    /\ LET r == SampleDistribution(DistCfg(fields[name]), obj, raw)
       IN  IF r.err = "none" THEN Resolve(name, r.ret) ELSE Propagate(r.err)
    /\ sampled' = sampled \cup {name}
    /\ UNCHANGED <<fields, diag, scans>>

ResolveDistribution(name) == \E raw \in 0..MaxDraw : ResolveDistributionWith(name, raw)

\* if has_explicit_default or (...): obj[name] = default_val
ResolveDefault(name) ==
    /\ pc = "for"
    /\ name \in pending
    /\ ~Skips(fields, obj, name)
    /\ Branch(fields[name]) = "default"
    /\ Resolve(name, fields[name].default)
    /\ UNCHANGED <<fields, diag, sampled, scans>>

\* no branch applies: the loop body ends and the field stays unresolved
LeaveUnresolved(name) ==
    /\ pc = "for"
    /\ name \in pending
    /\ ~Skips(fields, obj, name)
    /\ Branch(fields[name]) = "none"
    /\ pending' = pending \ {name}
    /\ UNCHANGED <<fields, obj, unresolved, progress, pc, err, diag, writes, sampled,
                   scans>>

\* a loop without the progress check: a scan that resolved nothing is repeated
EndScanNoRaise ==
    /\ pc = "for"
    /\ pending = {}
    /\ pc' = "while"
    /\ UNCHANGED <<fields, obj, unresolved, progress, pending, err, diag, writes,
                   sampled, scans>>

\* if not progress: print ...; raise RuntimeError(...)
EndScan ==
    /\ pc = "for"
    /\ pending = {}
    /\ IF progress
       THEN pc' = "while" /\ UNCHANGED <<err, diag>>
       ELSE /\ pc' = "raised"
            /\ err' = "RuntimeError"
            /\ diag' = {DiagLine(fields, name) : name \in unresolved}
    /\ UNCHANGED <<fields, obj, unresolved, progress, pending, writes, sampled, scans>>

Visit(name) ==
    \/ SkipBlocked(name)
    \/ ResolveFormula(name)
    \/ ResolveDistribution(name)
    \/ ResolveDefault(name)
    \/ LeaveUnresolved(name)

Next ==
    /\ \/ BeginScan
       \/ \E name \in pending : Visit(name)
       \/ EndScan
       \/ Return
    /\ UNCHANGED <<samplerVars, batchVars>>

Spec == Init /\ [][Next]_vars

\* the catalogs of the termination check: a field with a default, a field that
\* draws, a field whose formula raises and a field with nothing, with every
\* dependency graph of Graphs
TerminationStrategies == <<
    Strategy(EmptyDict, DefaultValue, FALSE),
    Strategy([distribution |-> Bernoulli], None, TRUE),
    Strategy([formula |-> FormulaImport], None, TRUE),
    Strategy(EmptyDict, None, TRUE) >>

TerminationAssignments(n) ==
    {st \in [1..n -> 1..Len(TerminationStrategies)] :
        \A j, k \in 1..n : j <= k => st[j] <= st[k]}

TerminationCatalog(n, st, g) ==
    [name \in FieldNames(n) |->
        LET k == CHOOSE j \in 1..n : AllNames[j] = name
        IN  MkField(TerminationStrategies[st[k]], g[k])]

TerminationInit ==
    /\ \E n \in 0..MaxFields :
         \E st \in TerminationAssignments(n) :
           \E g \in Graphs(n) : fields = TerminationCatalog(n, st, g)
    /\ obj = EmptyDict
    /\ unresolved = DOMAIN fields
    /\ progress = FALSE
    /\ pending = {}
    /\ pc = "while"
    /\ err = "none"
    /\ diag = {}
    /\ writes = EmptyDict
    /\ sampled = {}
    /\ scans = 0
    /\ SamplerIdle
    /\ BatchIdle

\* generate_one runs on one thread that nothing suspends: while a step is
\* possible, a step is taken
TerminationSpec == TerminationInit /\ [][Next]_vars /\ WF_vars(Next)

\* generate_one over the catalogs whose formulas name fields
FormulaInit ==
    /\ \E n \in 0..MaxFormulaFields :
         \E st \in [1..n -> 1..Len(FormulaStrategies)] :
           \E g \in FormulaGraphs(n) : fields = FormulaCatalog(n, st, g)
    /\ obj = EmptyDict
    /\ unresolved = DOMAIN fields
    /\ progress = FALSE
    /\ pending = {}
    /\ pc = "while"
    /\ err = "none"
    /\ diag = {}
    /\ writes = EmptyDict
    /\ sampled = {}
    /\ scans = 0
    /\ SamplerIdle
    /\ BatchIdle

FormulaSpec == FormulaInit /\ [][Next]_vars

-----------------------------------------------------------------------------
(* generate(n, csv_path)                                                   *)

\* a batch has at most MaxBatch records, over a catalog of at most
\* MaxBatchFields fields that together declare at most MaxBatchEdges
\* dependencies; the raw draws of a batch range over 0..MaxBatchDraw
MaxBatch == 3
MaxBatchFields == 2
MaxBatchEdges == 1
MaxBatchDraw == 1

\* a field that draws, a field that reads the record, a field with a default,
\* and a field with nothing
BatchStrategies == <<
    Strategy([distribution |-> Bernoulli], None, TRUE),
    Strategy([formula |-> FormulaSubscript], None, TRUE),
    Strategy(EmptyDict, DefaultValue, FALSE),
    Strategy(EmptyDict, None, TRUE) >>

BatchGraphs(n) ==
    {g \in [1..n -> SUBSET (FieldNames(n) \cup {External})] :
        SumCard(g, n) <= MaxBatchEdges}

BatchCatalog(n, st, g) ==
    [name \in FieldNames(n) |->
        LET k == CHOOSE j \in 1..n : AllNames[j] = name
        IN  MkField(BatchStrategies[st[k]], g[k])]

\* no call of generate_one is running
NotGenerating ==
    /\ obj = EmptyDict /\ unresolved = {} /\ pending = {}
    /\ progress = FALSE /\ pc = "idle" /\ err = "none" /\ diag = {}
    /\ writes = EmptyDict /\ sampled = {} /\ scans = 0

BatchInit ==
    /\ \E n \in 0..MaxBatchFields :
         \E st \in [1..n -> 1..Len(BatchStrategies)] :
           \E g \in BatchGraphs(n) : fields = BatchCatalog(n, st, g)
    /\ NotGenerating
    /\ SamplerIdle
    /\ batch_n \in 0..MaxBatch
    /\ rows = << >>
    /\ fieldnames = << >>
    /\ sink = NoFile
    /\ bpc = "rows"
    /\ berr = "none"
    /\ keys = << >>
    /\ drawn = EmptyDict
    /\ draws = << >>

\* a call that starts with the record of the call before it
CallGenerateOneStale ==
    /\ bpc = "rows"
    /\ pc = "idle"
    /\ Len(rows) < batch_n
    /\ obj' = IF rows = << >> THEN EmptyDict ELSE rows[Len(rows)].val
    /\ unresolved' = DOMAIN fields
    /\ progress' = FALSE
    /\ pending' = {}
    /\ pc' = "while"
    /\ err' = "none"
    /\ diag' = {}
    /\ writes' = EmptyDict
    /\ sampled' = {}
    /\ scans' = 0
    /\ keys' = << >>
    /\ drawn' = EmptyDict
    /\ UNCHANGED <<fields, samplerVars, batch_n, rows, fieldnames, sink, bpc, berr, draws>>

\* rows = [self.generate_one() for _ in range(n)]: the next call begins with
\* obj = {} and unresolved = set(self.fields.keys())
CallGenerateOne ==
    /\ bpc = "rows"
    /\ pc = "idle"
    /\ Len(rows) < batch_n
    /\ obj' = EmptyDict
    /\ unresolved' = DOMAIN fields
    /\ progress' = FALSE
    /\ pending' = {}
    /\ pc' = "while"
    /\ err' = "none"
    /\ diag' = {}
    /\ writes' = EmptyDict
    /\ sampled' = {}
    /\ scans' = 0
    /\ keys' = << >>
    /\ drawn' = EmptyDict
    /\ UNCHANGED <<fields, samplerVars, batch_n, rows, fieldnames, sink, bpc, berr, draws>>

\* one step of the call of generate_one that is running
BatchVisit(name) ==
    \/ SkipBlocked(name) /\ UNCHANGED drawn
    \/ ResolveFormula(name) /\ UNCHANGED drawn
    \/ \E raw \in 0..MaxBatchDraw :
         ResolveDistributionWith(name, raw) /\ drawn' = Put(drawn, name, raw)
    \/ ResolveDefault(name) /\ UNCHANGED drawn
    \/ LeaveUnresolved(name) /\ UNCHANGED drawn

GenerateOneStep ==
    /\ bpc = "rows"
    /\ \/ BeginScan /\ UNCHANGED drawn
       \/ \E name \in pending : BatchVisit(name)
       \/ EndScan /\ UNCHANGED drawn
       \/ Return /\ UNCHANGED drawn
    /\ keys' = IF DOMAIN obj' = DOMAIN obj THEN keys
               ELSE Append(keys, CHOOSE k \in DOMAIN obj' \ DOMAIN obj : TRUE)
    /\ UNCHANGED <<samplerVars, batch_n, rows, fieldnames, sink, bpc, berr, draws>>

\* what csv writes for a value: "" for None, str(value) otherwise
CsvCell(v) == IF v = None THEN << >> ELSE PyStr(v)

\* DictWriter._dict_to_list: the cells of a row along fieldnames, "" for a
\* missing key
CsvRow(row, header) ==
    [k \in 1..Len(header) |->
        IF header[k] \in DOMAIN row.val THEN CsvCell(row.val[header[k]]) ELSE << >>]

\* the line writeheader writes
CsvHeader(header) == [k \in 1..Len(header) |-> <<header[k]>>]

\* the keys of obj in insertion order, and its values
Row(order, ctx) == [keys |-> order, val |-> ctx]

\* a batch that writes every record to the file as soon as it is generated
CollectRecordStreaming ==
    /\ bpc = "rows"
    /\ pc = "returned"
    /\ rows' = Append(rows, Row(keys, obj))
    /\ draws' = Append(draws, drawn)
    /\ sink' = [sink EXCEPT !.opened = TRUE,
                            !.lines = Append(@, CsvRow(Row(keys, obj), keys))]
    /\ obj' = EmptyDict /\ unresolved' = {} /\ pending' = {}
    /\ progress' = FALSE /\ pc' = "idle" /\ diag' = {}
    /\ writes' = EmptyDict /\ sampled' = {} /\ scans' = 0
    /\ keys' = << >>
    /\ drawn' = EmptyDict
    /\ UNCHANGED <<fields, err, samplerVars, batch_n, fieldnames, bpc, berr>>

\* generate_one returned: its record is the next element of rows
CollectRecord ==
    /\ bpc = "rows"
    /\ pc = "returned"
    /\ rows' = Append(rows, Row(keys, obj))
    /\ draws' = Append(draws, drawn)
    /\ obj' = EmptyDict /\ unresolved' = {} /\ pending' = {}
    /\ progress' = FALSE /\ pc' = "idle" /\ diag' = {}
    /\ writes' = EmptyDict /\ sampled' = {} /\ scans' = 0
    /\ keys' = << >>
    /\ drawn' = EmptyDict
    /\ UNCHANGED <<fields, err, samplerVars, batch_n, fieldnames, sink, bpc, berr>>

\* generate_one raised: the exception leaves generate
AbortBatch ==
    /\ bpc = "rows"
    /\ pc = "raised"
    /\ bpc' = "raised"
    /\ berr' = err
    /\ UNCHANGED <<genVars, samplerVars, batch_n, rows, fieldnames, sink, keys, drawn,
                   draws>>

\* fieldnames = list(rows[0].keys())
FieldnamesOfFirstRow ==
    /\ bpc = "rows"
    /\ pc = "idle"
    /\ Len(rows) = batch_n
    /\ IF rows = << >>
       THEN bpc' = "raised" /\ berr' = "IndexError" /\ UNCHANGED fieldnames
       ELSE bpc' = "open" /\ fieldnames' = rows[1].keys /\ UNCHANGED berr
    /\ UNCHANGED <<genVars, samplerVars, batch_n, rows, sink, keys, drawn, draws>>

\* with open(csv_path, "w", newline="") as f:
OpenSink ==
    /\ bpc = "open"
    /\ sink' = [sink EXCEPT !.opened = TRUE]
    /\ bpc' = "header"
    /\ UNCHANGED <<genVars, samplerVars, batch_n, rows, fieldnames, berr, keys, drawn,
                   draws>>

\* open raises: the path cannot be written
OpenFails ==
    /\ bpc = "open"
    /\ bpc' = "raised"
    /\ berr' = "OSError"
    /\ UNCHANGED <<genVars, samplerVars, batch_n, rows, fieldnames, sink, keys, drawn,
                   draws>>

\* writer.writeheader()
WriteHeader ==
    /\ bpc = "header"
    /\ sink' = [sink EXCEPT !.lines = Append(@, CsvHeader(fieldnames))]
    /\ bpc' = "writerows"
    /\ UNCHANGED <<genVars, samplerVars, batch_n, rows, fieldnames, berr, keys, drawn,
                   draws>>

\* the rows writerows refuses: a key that is not in fieldnames
Refused == {k \in 1..Len(rows) : ~(DOMAIN rows[k].val \subseteq {fieldnames[j] : j \in 1..Len(fieldnames)})}

\* writer.writerows(rows): the rows before the first refused one are written
WriteRows ==
    /\ bpc = "writerows"
    /\ LET last == IF Refused = {} THEN Len(rows)
                   ELSE (CHOOSE k \in Refused : \A j \in Refused : k <= j) - 1
       IN  /\ sink' = [sink EXCEPT
                         !.lines = @ \o [k \in 1..last |-> CsvRow(rows[k], fieldnames)],
                         !.closed = Refused # {}]
           /\ IF Refused = {}
              THEN bpc' = "close" /\ UNCHANGED berr
              ELSE bpc' = "raised" /\ berr' = "ValueError"
    /\ UNCHANGED <<genVars, samplerVars, batch_n, rows, fieldnames, keys, drawn, draws>>

\* the with block ends; print(f"Generated {n} rows ...")
CloseAndReport ==
    /\ bpc = "close"
    /\ sink' = [sink EXCEPT !.closed = TRUE]
    /\ bpc' = "done"
    /\ UNCHANGED <<genVars, samplerVars, batch_n, rows, fieldnames, berr, keys, drawn,
                   draws>>

BatchNext ==
    \/ CallGenerateOne
    \/ GenerateOneStep
    \/ CollectRecord
    \/ AbortBatch
    \/ FieldnamesOfFirstRow
    \/ OpenSink
    \/ OpenFails
    \/ WriteHeader
    \/ WriteRows
    \/ CloseAndReport

BatchSpec == BatchInit /\ [][BatchNext]_vars

-----------------------------------------------------------------------------
(* Properties of generate_one.  They read the catalog records directly.    *)

\* the metadata mapping of a field of the catalog
Meta(name) == fields[name].field_info.extra

\* the names a field declares in dependent_on
Declared(name) ==
    IF "dependent_on" \notin DOMAIN Meta(name) THEN {}
    ELSE IF "str" \in DOMAIN Meta(name).dependent_on
    THEN {Meta(name).dependent_on.str}
    ELSE Meta(name).dependent_on.list

\* its relevant dependencies: the declared names that are catalog fields
InCatalog(name) == Declared(name) \cap DOMAIN fields

RECURSIVE Closure(_, _)
Closure(S, k) ==
    IF k = 0 THEN S ELSE Closure(S \cup UNION {InCatalog(m) : m \in S}, k - 1)

\* the fields reachable from a field along one or more relevant dependencies
Reach(name) == Closure(InCatalog(name), Cardinality(DOMAIN fields))

OnCycle(name) == name \in Reach(name)

HasCycle == \E name \in DOMAIN fields : OnCycle(name)

DeclaresFormula(name) == "formula" \in DOMAIN Meta(name)

DeclaresDistribution(name) ==
    "distribution" \in DOMAIN Meta(name) /\ Meta(name).distribution # None

Unresolvable == pc = "raised" /\ err = "RuntimeError"

\* C1 (Completeness): for a catalog without a cycle among relevant
\* dependencies, generate_one does not raise the unresolved-dependency error,
\* and the record it returns has exactly the catalog's field names as keys
\* (formula evaluation and sampling may raise their own exceptions).
C1_Completeness ==
    ~HasCycle =>
        /\ ~Unresolvable
        /\ pc = "returned" => DOMAIN obj = DOMAIN fields

\* C2 (Dependency ordering): at the step where a field B is written into the
\* context, every catalog field B declares as a dependency is already a key of
\* the context, whatever the scan order.
C2_DependencyOrdering ==
    [][\A b \in DOMAIN obj' \ DOMAIN obj : InCatalog(b) \subseteq DOMAIN obj]_vars

\* B depends on A and both were resolved within the same scan
C2_SameScanWitness ==
    \E a, b \in DOMAIN obj :
        /\ a # b
        /\ a \in InCatalog(b)
        /\ writes[a] = writes[b]

\* C3 as stated: with a cycle among relevant dependencies every run of
\* generate_one ends with the unresolved-dependency RuntimeError.
C3_AlwaysRuntimeError ==
    (HasCycle /\ pc \in {"returned", "raised"}) => Unresolvable

\* C3 (Cycle detection), amended: with a cycle among relevant dependencies
\* generate_one never returns a record and never starts more scans than there
\* are fields; no field on a cycle ever gets a value; and when it raises, it
\* raises the unresolved-dependency RuntimeError unless the formula or the
\* sampler of some field raised first.
C3_CycleDetection ==
    HasCycle =>
        /\ pc # "returned"
        /\ scans <= Cardinality(DOMAIN fields)
        /\ \A name \in DOMAIN fields : OnCycle(name) => name \notin DOMAIN obj
        /\ pc = "raised" =>
              \/ err = "RuntimeError"
              \/ /\ err = "SyntaxError"
                 /\ \E name \in DOMAIN fields :
                        DeclaresFormula(name) /\ Meta(name).formula = FormulaImport
              \/ /\ err = "TypeError"
                 /\ \E name \in DOMAIN fields :
                        DeclaresDistribution(name) /\ Meta(name).distribution = Bare

\* a cycle through three fields ended in the unresolved-dependency error
C3_LongCycleWitness ==
    /\ Unresolvable
    /\ Cardinality(DOMAIN fields) = 3
    /\ \A name \in DOMAIN fields : OnCycle(name) /\ name \notin InCatalog(name)

\* C4 (Formula priority): a field with both a formula and a distribution spec
\* is never handed to sample_distribution, and its value is the formula's.
C4_FormulaPriority ==
    \A name \in DOMAIN fields :
        (DeclaresFormula(name) /\ DeclaresDistribution(name)) =>
            /\ name \notin sampled
            /\ name \in DOMAIN obj => obj[name] = HexValue

C4_Witness ==
    \E name \in DOMAIN obj : DeclaresFormula(name) /\ DeclaresDistribution(name)

\* C5 (External dependency tolerance): a field that declares a name outside the
\* catalog is not left unresolved by it: when generate_one gives up, every
\* unresolved field with such a dependency still waits for a catalog field.
C5_ExternalTolerance ==
    Unresolvable =>
        \A name \in DOMAIN fields \ DOMAIN obj :
            Declared(name) \ DOMAIN fields # {} =>
                \E dep \in InCatalog(name) : dep \notin DOMAIN obj

\* the fields written during the scan that is running or has just ended
WrittenThisScan == {name \in DOMAIN writes : writes[name][Len(writes[name])] = scans}

\* C6 (Progress check): the unresolved-dependency error is raised after a scan
\* that resolved no field while fields remain, and only then; the diagnostic
\* names exactly the fields that have no value.
C6_ProgressCheck ==
    /\ Unresolvable =>
          /\ WrittenThisScan = {}
          /\ DOMAIN fields \ DOMAIN obj # {}
          /\ {line.name : line \in diag} = DOMAIN fields \ DOMAIN obj
    /\ (pc = "while" /\ scans > 0) => WrittenThisScan # {}
    /\ pc = "returned" => (err = "none" /\ diag = {})
    /\ ~Unresolvable => diag = {}

\* the error was raised with some fields resolved and others not
C6_Witness == Unresolvable /\ DOMAIN obj # {} /\ Cardinality(diag) = 2

\* C7 (Write-once context): no step changes or removes an entry of the
\* context, and no field name is assigned more than once.
C7_WriteOnce ==
    [][/\ \A name \in DOMAIN obj : name \in DOMAIN obj' /\ obj'[name] = obj[name]
       /\ \A name \in DOMAIN writes' : Len(writes'[name]) <= 1
       /\ DOMAIN writes' = DOMAIN obj']_vars

\* a value written in the first scan is in the record returned after the third
C7_Witness ==
    /\ pc = "returned"
    /\ scans = 3
    /\ \E name \in DOMAIN obj : writes[name] = <<1>>

-----------------------------------------------------------------------------
(* Properties of sample_distribution.  They read the arguments directly.   *)

IsKind(kind) == "dist" \in DOMAIN arg_cfg /\ arg_cfg.dist = kind

\* the bounds of the integer-range keys and the numbers of the label keys
BoundsOf(key) ==
    CASE key = <<"2", "-", "4">> -> <<2, 4>>
      [] key = <<"3", "-", "6">> -> <<3, 6>>
      [] key = <<"1", "0", "-", "1", "2">> -> <<10, 12>>
      [] key = <<"5", "-", "3">> -> <<5, 3>>
      [] key = <<"5">> -> <<5, 5>>
      [] key = <<"1", "1">> -> <<11, 11>>
      [] OTHER -> <<1, 0>>

\* lo <= v <= hi for a range key, the label equals v for a label key
KeyMatches(key, v) == BoundsOf(key)[1] <= v /\ v <= BoundsOf(key)[2]

KeysOf(rules) == {rules[k][1] : k \in 1..Len(rules)}

\* a categorical spec conditioned on a field that holds an integer, with rules
\* made of integer ranges, labels and "default"
Routed ==
    /\ spc = "done"
    /\ IsKind("categorical")
    /\ "condition_on" \in DOMAIN arg_cfg
    /\ arg_cfg.condition_on \in DOMAIN arg_ctx
    /\ arg_ctx[arg_cfg.condition_on].t = "int"
    /\ "rules" \in DOMAIN arg_cfg
    /\ KeysOf(arg_cfg.rules) \subseteq RangeKeys \cup LabelKeys \cup {DefaultKey}

Matching ==
    {key \in KeysOf(arg_cfg.rules) \ {DefaultKey} :
        KeyMatches(key, arg_ctx[arg_cfg.condition_on].i)}

LabelsOf(key) == {ProbsOf(key)[k][1] : k \in 1..Len(ProbsOf(key))}

\* C8 (Conditional categorical routing): if a non-default key matches the
\* conditioning value, the label is drawn from the table of a matching key
\* and not from "default"; if none matches and "default" is present, it is
\* drawn from the "default" table.
C8_Routing ==
    Routed =>
        /\ Matching # {} =>
              /\ out.err = "none"
              /\ out.table \in Matching
              /\ out.ret.s \in LabelsOf(out.table)
        /\ (Matching = {} /\ DefaultKey \in KeysOf(arg_cfg.rules)) =>
              /\ out.err = "none"
              /\ out.table = DefaultKey
              /\ out.ret.s \in LabelsOf(DefaultKey)

\* "default" listed first, the value on the upper bound of the range after it
C8_Witness ==
    /\ Routed
    /\ arg_ctx[arg_cfg.condition_on].i = 4
    /\ Len(arg_cfg.rules) = 2
    /\ arg_cfg.rules[1][1] = DefaultKey
    /\ arg_cfg.rules[2][1] = <<"2", "-", "4">>
    /\ out.table = <<"2", "-", "4">>

Bounded ==
    /\ spc = "done"
    /\ IsKind("normal")
    /\ ("min" \in DOMAIN arg_cfg /\ "max" \in DOMAIN arg_cfg) => arg_cfg.min <= arg_cfg.max

\* C9 (Distribution bounds): a normal spec with min <= max returns, for every
\* raw draw, a value >= min and <= max, the raw draw itself when it is inside
\* the bounds, after exactly one draw.
C9_DistributionBounds ==
    Bounded =>
        /\ out.err = "none"
        /\ Len(out.rng) = 1
        /\ out.rng[1].fn = "normal"
        /\ "min" \in DOMAIN arg_cfg => out.ret.i >= arg_cfg.min
        /\ "max" \in DOMAIN arg_cfg => out.ret.i <= arg_cfg.max
        /\ (/\ "min" \in DOMAIN arg_cfg => out.rng[1].val >= arg_cfg.min
            /\ "max" \in DOMAIN arg_cfg => out.rng[1].val <= arg_cfg.max)
           => out.ret = IntV(out.rng[1].val)

\* a raw draw above max came back as max
C9_Witness ==
    /\ Bounded
    /\ "min" \in DOMAIN arg_cfg
    /\ "max" \in DOMAIN arg_cfg
    /\ arg_cfg.min < arg_cfg.max
    /\ out.rng[1].val > arg_cfg.max
    /\ out.ret.i = arg_cfg.max

NoKind ==
    \/ arg_cfg = None
    \/ "dist" \notin DOMAIN arg_cfg
    \/ arg_cfg.dist \notin Kinds

\* C10 (Null / unknown distribution): for a null spec, a spec without "dist"
\* and a spec of an unknown kind, sample_distribution returns null, raises
\* nothing and asks the random source for nothing, whatever the context.
C10_NullOrUnknown ==
    (spc = "done" /\ NoKind) =>
        /\ out.ret = None
        /\ out.err = "none"
        /\ out.rng = << >>

\* an unknown kind that names a conditioning field the context holds
C10_Witness ==
    /\ spc = "done"
    /\ arg_cfg = [dist |-> "weibull", condition_on |-> "age"]
    /\ "age" \in DOMAIN arg_ctx
    /\ out.ret = None

\* a categorical spec with categories, conditioned on a field that holds an
\* integer, whose rules hold a key with a "-" that is no integer range
Malformed ==
    /\ spc = "done"
    /\ IsKind("categorical")
    /\ "categories" \in DOMAIN arg_cfg
    /\ "condition_on" \in DOMAIN arg_cfg
    /\ arg_cfg.condition_on \in DOMAIN arg_ctx
    /\ arg_ctx[arg_cfg.condition_on].t = "int"
    /\ "rules" \in DOMAIN arg_cfg
    /\ KeysOf(arg_cfg.rules) \cap OddKeys # {}

\* C11 (Malformed rule key): with a rule key that holds a "-" and is no
\* parsable integer range, sample_distribution does not raise.
C11_MalformedKeyTolerated == Malformed => out.err = "none"


-----------------------------------------------------------------------------
(* Properties of formula evaluation, over the catalogs of FormulaSpec.     *)

\* the exception that evaluating the formula of a field raises in the present
\* context, "none" if it yields a value
FormulaError(name) ==
    IF ~DeclaresFormula(name) THEN "none"
    ELSE CASE Meta(name).formula = FormulaImport -> "SyntaxError"
           [] Meta(name).formula = FormulaRef -> "NameError"
           [] Meta(name).formula = FormulaSubscript /\ "a" \notin DOMAIN obj -> "KeyError"
           [] OTHER -> "none"

\* the fields still to visit in this scan whose formula would be evaluated,
\* and would raise, if visited now
AboutToRaise ==
    {name \in pending : InCatalog(name) \subseteq DOMAIN obj /\ FormulaError(name) # "none"}

\* C12 (Formula errors are fatal for the record): a field whose formula raises
\* is never passed over and never gets a value; the exception leaves
\* generate_one in the step that evaluates the formula, with the context as it
\* was; and after an exception generate_one takes no further step (no field is
\* resolved, nothing is retried, no record is returned).
C12_FormulaErrorsFatal ==
    [][/\ pc # "raised"
       /\ \A name \in AboutToRaise : name \in pending' /\ name \notin DOMAIN obj'
       /\ (pc' = "raised" /\ err' # "RuntimeError") =>
             /\ obj' = obj
             /\ unresolved' = unresolved
             /\ \E name \in AboutToRaise : err' = FormulaError(name)]_vars

\* a formula raised after another field had been resolved
C12_Witness ==
    /\ pc = "raised"
    /\ err = "NameError"
    /\ DOMAIN obj # {}
    /\ unresolved # {}


\* the formulas that are one bare name
BareNames == {FormulaRef, FormulaLocal}

\* C13 (Formula name environment): a field whose formula is a bare name gets
\* the value the context holds under that name, and a NameError is raised only
\* for a formula that names something the context does not hold.
C13_NameEnvironment ==
    /\ \A name \in DOMAIN obj :
          (DeclaresFormula(name) /\ Meta(name).formula \in BareNames) =>
              /\ Meta(name).formula \in DOMAIN obj
              /\ obj[name] = obj[Meta(name).formula]
    /\ (pc = "raised" /\ err = "NameError") =>
          \E name \in pending :
              /\ InCatalog(name) \subseteq DOMAIN obj
              /\ DeclaresFormula(name)
              /\ Meta(name).formula \in BareNames
              /\ Meta(name).formula \notin DOMAIN obj


-----------------------------------------------------------------------------
(* Properties of generate.                                                 *)

Emitted == <<CsvHeader(fieldnames)>> \o [k \in 1..Len(rows) |-> CsvRow(rows[k], fieldnames)]

\* C15 (Batch size): when no call of generate_one raised and the file could
\* be opened, generate ends without an exception, with exactly n records
\* handed to the file in the order they were generated, for every n >= 0.
C15_BatchSize ==
    (bpc \in {"done", "raised"} /\ pc # "raised" /\ berr # "OSError") =>
        /\ bpc = "done"
        /\ Len(rows) = batch_n
        /\ sink.lines = Emitted


\* C16 (Batch independence): every call of generate_one starts from an empty
\* context and the full unresolved set whatever the rows before it hold; a
\* record, once in rows, is not changed; and two records of a batch, the first
\* among them, that consumed the same draws have equal field values.
C16_BatchIndependence ==
    [][/\ (pc = "idle" /\ pc' # "idle") =>
             (obj' = EmptyDict /\ unresolved' = DOMAIN fields /\ fields' = fields)
       /\ \A k \in 1..Len(rows) : k <= Len(rows') /\ rows'[k] = rows[k]
       /\ \A j, k \in 1..Len(rows') : draws'[j] = draws'[k] => rows'[j].val = rows'[k].val]_vars

\* the third record of a batch consumed the draws of the first, resolved its
\* fields in another order, and the record between them holds other values
C16_Witness ==
    /\ Len(rows) = 3
    /\ draws[1] = draws[3]
    /\ draws[1] # EmptyDict
    /\ rows[1].keys # rows[3].keys
    /\ rows[2].val # rows[1].val


-----------------------------------------------------------------------------
(* Further properties of generate_one.                                     *)

\* C17 (Default resolution step): a field without formula and without
\* distribution spec that a scan visits while all its relevant dependencies
\* are keys of the context is resolved by that visit to its default value and
\* removed from unresolved, whether or not it declares dependencies and
\* whether or not its default is null.
C17_DefaultResolution ==
    [][\A name \in pending \ pending' :
          (/\ ~DeclaresFormula(name)
           /\ ~DeclaresDistribution(name)
           /\ InCatalog(name) \subseteq DOMAIN obj) =>
              /\ name \in DOMAIN obj'
              /\ obj'[name] = fields[name].default
              /\ name \notin unresolved']_vars


-----------------------------------------------------------------------------
(* Further properties of sample_distribution.                              *)

\* the spec names a conditioning field and the context holds no value for it
ConditionMissing ==
    /\ spc = "done"
    /\ arg_cfg # None
    /\ "dist" \in DOMAIN arg_cfg
    /\ arg_cfg.dist \in Kinds
    /\ "condition_on" \in DOMAIN arg_cfg
    /\ arg_cfg.condition_on \notin DOMAIN arg_ctx

\* C18 (Missing conditioning value fails clearly): a spec with condition_on = c
\* sampled in a context without c ends in an exception, never in a value.
C18_MissingConditionFails == ConditionMissing => out.err # "none"


\* the parameter the spec gives under a key, the default where it gives none
Param(key, dflt) == IF key \in DOMAIN arg_cfg THEN arg_cfg[key] ELSE dflt

\* the call made the one call fn(args) to the random source
Drew(fn, args) == Len(out.rng) = 1 /\ out.rng[1].fn = fn /\ out.rng[1].args = args

\* C19 (Parameter pass-through): for every kind the random source is called
\* with the parameters of the spec where present and with the defaults
\* otherwise (lognormal 1, 1; poisson 1; exponential 1; bernoulli 0.5,
\* compared with the uniform draw).
C19_ParameterPassThrough ==
    spc = "done" =>
        /\ IsKind("normal") =>
              /\ Len(out.rng) = 1 /\ out.rng[1].fn = "normal"
              /\ "mean" \in DOMAIN arg_cfg => out.rng[1].args[1] = arg_cfg.mean
              /\ "sd" \in DOMAIN arg_cfg => out.rng[1].args[2] = arg_cfg.sd
        /\ IsKind("lognormal") => Drew("lognormal", <<Param("mean", 1), Param("sigma", 1)>>)
        /\ IsKind("poisson") => Drew("poisson", <<Param("lambda", 1)>>)
        /\ IsKind("exponential") => Drew("exponential", <<Param("scale", 1)>>)
        /\ IsKind("bernoulli") =>
              /\ Drew("random", << >>)
              /\ out.ret = BoolV(out.rng[1].val < Param("p", POne \div 2))


\* C20 (Sampler null falls through to the default): a field whose sampler
\* produces no value (an unrecognized kind) is resolved to its default value
\* when that is not null, and to null only when it has no default.
C20_NullFallsToDefault ==
    \A name \in DOMAIN obj :
        (/\ ~DeclaresFormula(name)
         /\ DeclaresDistribution(name)
         /\ Meta(name).distribution = Weibull) =>
            obj[name] = fields[name].default


\* C21 (Bounded termination): generate_one starts at most as many scans as
\* the catalog has fields (none for the empty catalog), every scan that ends
\* without the error leaves fewer unresolved fields than the scans before it
\* allow, and generate_one eventually returns or raises.
C21_BoundedTermination ==
    /\ [](/\ scans <= Cardinality(DOMAIN fields)
          /\ (pc = "while" /\ scans > 0) =>
                /\ WrittenThisScan # {}
                /\ WrittenThisScan \cap unresolved = {}
                /\ Cardinality(unresolved) + scans <= Cardinality(DOMAIN fields))
    /\ <>(pc \in {"returned", "raised"})

\* the error was raised by the last scan the bound allows
C21_Witness ==
    /\ Unresolvable
    /\ Cardinality(DOMAIN fields) = 3
    /\ scans = 3


\* the labels of the probs table the spec holds under a rule key
TableOf(key) ==
    LET rule == arg_cfg.rules[CHOOSE k \in 1..Len(arg_cfg.rules) : arg_cfg.rules[k][1] = key][2]
    IN  {rule.probs[k][1] : k \in 1..Len(rule.probs)}

\* C22 (Categorical support): a value returned for a categorical spec is a
\* label of the probs table that was drawn from when one was, and an element
\* of categories otherwise, for every context.
C22_CategoricalSupport ==
    (spc = "done" /\ IsKind("categorical") /\ out.err = "none") =>
        /\ out.ret.t = "str"
        /\ IF out.table # << >>
           THEN /\ "rules" \in DOMAIN arg_cfg
                /\ out.table \in KeysOf(arg_cfg.rules)
                /\ out.ret.s \in TableOf(out.table)
           ELSE /\ "categories" \in DOMAIN arg_cfg
                /\ \E k \in 1..Len(arg_cfg.categories) : arg_cfg.categories[k] = out.ret.s

\* rules are present and the context holds an integer, yet no key matches and
\* there is no "default": the value is one of categories
C22_Witness ==
    /\ Routed
    /\ Len(arg_cfg.rules) = 2
    /\ Matching = {}
    /\ DefaultKey \notin KeysOf(arg_cfg.rules)
    /\ out.err = "none"
    /\ out.table = << >>
    /\ out.ret = StrV(<<"o">>)


\* the kinds that the claim says do not read the context
ContextFree == {"normal", "lognormal", "poisson", "exponential", "bernoulli"}

\* what a call hands back and what it asks of the random source
Observed(o) == [ret |-> o.ret, err |-> o.err, rng |-> o.rng]

\* C23 (Context-independence of non-categorical kinds): the call leaves the
\* context as it was, and for a normal, lognormal, poisson, exponential or
\* bernoulli spec the value returned is the one the same spec and the same
\* raw draw yield in every other context, with condition_on and rules or
\* without.
C23_ContextIndependence ==
    [][/\ arg_ctx' = arg_ctx
       /\ (arg_cfg # None /\ "dist" \in DOMAIN arg_cfg /\ arg_cfg.dist \in ContextFree) =>
             \E raw \in 0..MaxDraw :
                /\ out' = SampleDistribution(arg_cfg, arg_ctx, raw)
                /\ \A other \in Contexts :
                      Observed(SampleDistribution(arg_cfg, other, raw)) = Observed(out')]_vars

\* an exponential spec with a rule for the value the context holds: the rule's
\* scale is not used
C23_Witness ==
    /\ spc = "done"
    /\ IsKind("exponential")
    /\ "rules" \in DOMAIN arg_cfg
    /\ "scale" \notin DOMAIN arg_cfg
    /\ arg_ctx = [age |-> IntV(5)]
    /\ out.rng[1].args = <<1>>


\* C24 (Partition invariant): in every state of generate_one the keys of the
\* context and the unresolved set are disjoint and together are the field
\* names of the catalog; a returned record has an entry for every catalog
\* field and for nothing else.
C24_Partition ==
    /\ DOMAIN obj \cap unresolved = {}
    /\ DOMAIN obj \cup unresolved = DOMAIN fields
    /\ pc = "returned" => (unresolved = {} /\ DOMAIN obj = DOMAIN fields)

\* in the middle of the second scan, with one field resolved in each scan and
\* one still unresolved
C24_Witness ==
    /\ pc = "for"
    /\ scans = 2
    /\ Cardinality(DOMAIN obj) = 2
    /\ Cardinality(WrittenThisScan) = 1
    /\ Cardinality(unresolved) = 1

====
